---- MODULE Spec2Model ----
(***************************************************************************)
(* Metered tool execution of the quiz MCP server.                          *)
(*                                                                         *)
(* executeToolWithTokenConsumption (src/src/shared/tool-executor.ts) is    *)
(* modelled step by step, one action per stretch of code between two       *)
(* awaits.  The token ledger behind checkBalance / consumeTokensWithRetry  *)
(* (./tokenConsumption, not part of the sources at hand) is modelled from  *)
(* the specification, sections 4.1 and 4.2.                                *)
(*                                                                         *)
(* validateAndRefreshSession (src/src/auth/authkit-handler.ts) is modelled *)
(* the same way under SessionSpec; the identity provider behind it         *)
(* exchanges a refresh token once (specification, section 4.4).            *)
(***************************************************************************)
EXTENDS Integers, Sequences, FiniteSets, TLC

\* ------------------------------------------------------------------ bounds
MaxInv == 2
MaxUnits == 2
MaxCalls == 2
MaxReq == 3
\* capacity of serverCache (1000 in the program)
MAX_CACHED_SERVERS == 2
\* the clock values a run of the cache sees
MaxCacheTime == 1
\* pieces of text in an Authorization header
MaxHeaderLen == 3
\* wrong answers the user picks among, for each question
MaxWrong == 1
MaxTime == 4
\* length of a session in clock ticks (30 days in the program)
SESSION_DURATION_MS == 2

\* ------------------------------------------------------- program constants
\* TOOL_METADATA.start_quiz.cost.tokens
ToolCost == 5
\* bounded attempts of the retry controller (spec 4.2: "e.g. 3-5")
MaxAttempts == 3

Users == {"u1"}
Invs == 1..MaxInv
\* identifiers crypto.randomUUID() can hand out in a bounded run
IdSpace == 0..(MaxInv + MaxAttempts + 1)
NoId == 0
InitBalances == {k * ToolCost : k \in 0..MaxUnits} \cup {ToolCost - 2}

NoCheck == [sufficient |-> FALSE, currentBalance |-> -1, userDeleted |-> FALSE]
NoResult == [isError |-> FALSE, kind |-> "none", structured |-> FALSE, text |-> <<"none">>]
\* toolName of executeStartQuiz
ToolName == "start_quiz"
\* params.userEmail of an identity
UserEmail(u) == <<"email", u>>

VARIABLES
    pc,          \* position of each invocation in executeToolWithTokenConsumption
    userOf,      \* params.userId of each invocation
    logicalOf,   \* the caller's logical request an invocation belongs to (first invocation of it)
    actionId,    \* const actionId of each invocation
    idsMade,     \* how many times an invocation called crypto.randomUUID()
    nextId,      \* source of fresh identifiers
    bc,          \* balanceCheck of each invocation
    execCount,   \* how many times execute(inputs) was called by an invocation
    attempts,    \* debit attempts made by consumeTokensWithRetry for an invocation
    debitIds,    \* the actionIds an invocation's debit attempts carried
    debitOk,     \* consumeTokensWithRetry returned without throwing
    thrown,      \* what was thrown inside the try block
    result,      \* value returned by the invocation
    log,         \* records the invocation handed to the logger
    balance,     \* ledger: amount per identity
    deleted,     \* ledger: soft-delete flag per identity
    recs,        \* ledger: idempotency records
    initBalance, \* history: the balance each identity started with
    applied,     \* history: balance decrements performed under each actionId
    replies,     \* history: outcomes the ledger computed for each actionId
    calls,       \* history: debit units the store ran for each actionId
    inflight,    \* debit units sent to the store and not yet run, per identity and actionId
    now,         \* the clock Date.now() reads
    kv,          \* env.USER_SESSIONS: the record stored under each session token
    kvTtl,       \* env.USER_SESSIONS: the instant the entry of each session token lapses
    prvValid,    \* identity provider: the refresh tokens it will still exchange
    nextRT,      \* identity provider: the next refresh token it issues
    val,         \* the calls of validateAndRefreshSession: position, locals, result
    areq,        \* the GET /authorize requests: position, inputs, response
    cache,       \* serverCache: the entries of the Map, in insertion order
    recency,     \* history: the keys of serverCache, least recently accessed first
    lastOp,      \* history: the last operation on serverCache and what it did
    api,         \* the API-key requests: inputs, server handed out, response
    route,       \* the requests seen by fetch: path, Authorization header, routing
    w            \* the quiz widget: its React state, its pending timeouts, its messages

vars == <<pc, userOf, logicalOf, actionId, idsMade, nextId, bc, execCount,
          attempts, debitIds, debitOk, thrown, result, log, balance, deleted,
          recs, initBalance, applied, replies, calls, inflight,
          now, kv, kvTtl, prvValid, nextRT, val, areq, cache, recency, lastOp,
          api, route, w>>

sessVars == <<now, kv, kvTtl, prvValid, nextRT, val>>

execVars == <<userOf, logicalOf, actionId, idsMade, nextId, bc, execCount,
              attempts, debitIds, debitOk, thrown, result, log>>
ledgerVars == <<balance, deleted, recs, applied, replies, calls>>

toolVars == <<pc, execVars, ledgerVars, inflight, initBalance>>
authVars == <<areq>>
cacheVars == <<cache, recency, lastOp, api>>
routeVars == <<route>>
widgetVars == <<w>>
\* what the actions of one part of the program leave alone
nonToolVars == <<sessVars, authVars, cacheVars, routeVars, widgetVars>>
nonSessVars == <<toolVars, authVars, cacheVars, routeVars, widgetVars>>
nonAuthVars == <<toolVars, sessVars, cacheVars, routeVars, widgetVars>>
nonCacheVars ==
    <<toolVars, kv, kvTtl, prvValid, nextRT, val, authVars, routeVars, widgetVars>>
nonRouteVars == <<toolVars, sessVars, authVars, cacheVars, widgetVars>>
nonWidgetVars == <<toolVars, sessVars, authVars, cacheVars, routeVars>>

\* ------------------------------------------------------------------ ledger

\* checkBalance(tokenDb, userId, requiredAmount): read-only, latest value
CheckBalance(u, required) ==
    [sufficient |-> (~deleted[u]) /\ balance[u] >= required,
     currentBalance |-> balance[u],
     userDeleted |-> deleted[u]]

RecordOf(rs, aid) == CHOOSE rec \in rs : rec.actionId = aid
HasRecord(rs, aid) == \E rec \in rs : rec.actionId = aid

\* debit without the idempotency lookup: every call is applied again
DebitNoReplay(bal, del, rs, u, amt, aid) ==
    IF del
    THEN [error |-> "IdentityDeactivated", applied |-> FALSE, balance |-> bal,
          recs |-> rs, success |-> FALSE, balanceAfter |-> bal]
    ELSE IF amt > bal
    THEN [error |-> "InsufficientBalance", applied |-> FALSE, balance |-> bal,
          recs |-> rs, success |-> FALSE, balanceAfter |-> bal]
    ELSE [error |-> "none", applied |-> TRUE, balance |-> bal - amt,
          recs |-> rs \cup {[actionId |-> aid, identity |-> u, amountDebited |-> amt,
                             success |-> TRUE, balanceAfter |-> bal - amt]},
          success |-> TRUE, balanceAfter |-> bal - amt]

\* debit without the sufficiency re-check inside the atomic unit
DebitNoRecheck(bal, del, rs, u, amt, aid) ==
    IF HasRecord(rs, aid)
    THEN [error |-> "none", applied |-> FALSE, balance |-> bal, recs |-> rs,
          success |-> RecordOf(rs, aid).success,
          balanceAfter |-> RecordOf(rs, aid).balanceAfter]
    ELSE IF del
    THEN [error |-> "IdentityDeactivated", applied |-> FALSE, balance |-> bal,
          recs |-> rs, success |-> FALSE, balanceAfter |-> bal]
    ELSE [error |-> "none", applied |-> TRUE, balance |-> bal - amt,
          recs |-> rs \cup {[actionId |-> aid, identity |-> u, amountDebited |-> amt,
                             success |-> TRUE, balanceAfter |-> bal - amt]},
          success |-> TRUE, balanceAfter |-> bal - amt]

\* debit(identity, amount, actionId): one atomic unit of the store
Debit(bal, del, rs, u, amt, aid) ==
    IF HasRecord(rs, aid)
    THEN [error |-> "none", applied |-> FALSE, balance |-> bal, recs |-> rs,
          success |-> RecordOf(rs, aid).success,
          balanceAfter |-> RecordOf(rs, aid).balanceAfter]
    ELSE IF del
    THEN [error |-> "IdentityDeactivated", applied |-> FALSE, balance |-> bal,
          recs |-> rs, success |-> FALSE, balanceAfter |-> bal]
    ELSE IF amt > bal
    THEN [error |-> "InsufficientBalance", applied |-> FALSE, balance |-> bal,
          recs |-> rs, success |-> FALSE, balanceAfter |-> bal]
    ELSE [error |-> "none", applied |-> TRUE, balance |-> bal - amt,
          recs |-> rs \cup {[actionId |-> aid, identity |-> u, amountDebited |-> amt,
                             success |-> TRUE, balanceAfter |-> bal - amt]},
          success |-> TRUE, balanceAfter |-> bal - amt]

\* ---------------------------------------------------------------- executor

\* crypto.randomUUID()
RandomUUID == nextId

\* Step 3a dropped: a deleted account falls through to the business logic
BalanceDecisionDeletedRuns(check) ==
    IF check.userDeleted THEN "execute"
    ELSE IF ~check.sufficient THEN "insufficient"
    ELSE "execute"

\* Step 3b dropped: an insufficient balance falls through to the business logic
BalanceDecisionNoBalanceGuard(check) ==
    IF check.userDeleted THEN "deleted" ELSE "execute"

\* charge first: the debit is issued before the business logic
BalanceDecisionChargeFirst(check) ==
    IF check.userDeleted THEN "deleted"
    ELSE IF ~check.sufficient THEN "insufficient"
    ELSE "debit"

\* Steps 3a, 3b: where the invocation goes after the balance check
BalanceDecision(check) ==
    IF check.userDeleted THEN "deleted"
    ELSE IF ~check.sufficient THEN "insufficient"
    ELSE "execute"

\* the debit is issued whether the business logic threw or not
AfterExecuteDebits(threw) == IF threw THEN "debit" ELSE "process"

\* the business logic is run again when it throws
AfterExecuteRetry(threw) == IF threw THEN "execute" ELSE "process"

\* Step 4: await execute(inputs), inside the try block
AfterExecute(threw) == IF threw THEN "catch" ELSE "process"

\* Step 4.5: sanitizeOutput, redactPII, JSON.parse, inside the try block
AfterProcess(threw) == IF threw THEN "catch" ELSE "debit"

\* a failed debit is swallowed and the output returned all the same
AfterDebitSwallow(threw) == "completed"

\* Step 5: await consumeTokensWithRetry(...), inside the try block
AfterDebit(threw) == IF threw THEN "catch" ELSE "completed"

\* a new identifier for every debit attempt
DebitActionIdFresh(r) == actionId[r] + attempts[r]

\* the actionId argument of consumeTokensWithRetry
DebitActionId(r) == actionId[r]

\* the completion record draws an identifier of its own
CompletionActionIdFresh(r) == nextId

\* action_id of the tool_completed record
CompletionActionId(r) == actionId[r]

\* logger.info({event: "tool_completed", ...})
CompletedRecord(r) ==
    [level |-> "info", event |-> "tool_completed", tool |-> ToolName,
     user_email |-> UserEmail(userOf[r]), user_id |-> userOf[r],
     action_id |-> CompletionActionId(r), duration_ms |-> 0,
     tokens_consumed |-> ToolCost]

\* logger.error({event: "tool_failed", ...}) of the catch block
FailedRecord(r, err) ==
    [level |-> "error", event |-> "tool_failed", tool |-> ToolName,
     user_id |-> userOf[r], error |-> err]

\* logger.warn({event: "tool_failed", ...}) of Step 3a
DeletedRecord(r) ==
    [level |-> "warning", event |-> "tool_failed", tool |-> ToolName,
     user_id |-> userOf[r], error |-> "User account deleted"]

\* logger.warn({event: "balance_check", ...}) of Step 3b
BalanceCheckRecord(r, check) ==
    [level |-> "warning", event |-> "balance_check", user_id |-> userOf[r],
     required_tokens |-> ToolCost, current_balance |-> check.currentBalance,
     sufficient |-> FALSE]

\* the record is filtered out and never written
EmitDropped(l, rec) == l

\* Logger.log: the entry is written with console.log, whatever its level
Emit(l, rec) == Append(l, rec)

\* the text of the catch block's reply: a fixed prefix, the tool name and the
\* message of the value that was caught
ErrorText(err) == <<"Error executing ", ToolName, ": ", err>>

\* without the catch block: a value thrown inside the try block leaves the
\* function and no result object is returned
SettleNoCatch(r, next, err) ==
    CASE next = "completed" ->
            /\ log' = [log EXCEPT ![r] = Emit(@, CompletedRecord(r))]
            /\ result' = [result EXCEPT ![r] =
                         [isError |-> FALSE, kind |-> "success",
                          structured |-> TRUE, text |-> <<"redacted output">>]]
            /\ pc' = [pc EXCEPT ![r] = "done"]
      [] next = "catch" ->
            /\ log' = [log EXCEPT ![r] = Emit(@, FailedRecord(r, err))]
            /\ pc' = [pc EXCEPT ![r] = "done"]
            /\ UNCHANGED result
      [] OTHER ->
            /\ pc' = [pc EXCEPT ![r] = next]
            /\ UNCHANGED <<log, result>>

\* The synchronous tail of a step: the invocation moves to `next`; "completed"
\* and "catch" are run through to their return statement at once, since
\* neither contains an await.  err is the value caught, if any.
Settle(r, next, err) ==
    CASE next = "completed" ->
            /\ log' = [log EXCEPT ![r] = Emit(@, CompletedRecord(r))]
            /\ result' = [result EXCEPT ![r] =
                         [isError |-> FALSE, kind |-> "success",
                          structured |-> TRUE, text |-> <<"redacted output">>]]
            /\ pc' = [pc EXCEPT ![r] = "done"]
      [] next = "catch" ->
            /\ log' = [log EXCEPT ![r] = Emit(@, FailedRecord(r, err))]
            /\ result' = [result EXCEPT ![r] =
                         [isError |-> TRUE, kind |-> "exception",
                          structured |-> FALSE, text |-> ErrorText(err)]]
            /\ pc' = [pc EXCEPT ![r] = "done"]
      [] OTHER ->
            /\ pc' = [pc EXCEPT ![r] = next]
            /\ UNCHANGED <<log, result>>

\* Step 1; then checkBalance is awaited.  retryOf names an earlier invocation
\* that has returned and that the caller now repeats (0: a new request).
Invoke(r, u, retryOf) ==
    /\ pc[r] = "idle"
    /\ \A q \in Invs : q < r => pc[q] # "idle"
    /\ retryOf = 0 \/ (retryOf \in Invs /\ pc[retryOf] = "done" /\ userOf[retryOf] = u)
    /\ pc' = [pc EXCEPT ![r] = "check"]
    /\ userOf' = [userOf EXCEPT ![r] = u]
    /\ logicalOf' = [logicalOf EXCEPT ![r] = IF retryOf = 0 THEN r ELSE logicalOf[retryOf]]
    /\ actionId' = [actionId EXCEPT ![r] = RandomUUID]
    /\ idsMade' = [idsMade EXCEPT ![r] = @ + 1]
    /\ nextId' = nextId + 1
    /\ UNCHANGED <<bc, execCount, attempts, debitIds, debitOk, thrown, result, log>>
    /\ UNCHANGED <<ledgerVars, inflight, initBalance>>
    /\ UNCHANGED nonToolVars

\* Step 2 result arrives; Steps 3a and 3b; then execute is awaited
CheckStep(r) ==
    /\ pc[r] = "check"
    /\ LET check == CheckBalance(userOf[r], ToolCost)
           d == BalanceDecision(check)
       IN /\ bc' = [bc EXCEPT ![r] = check]
          /\ CASE d = "deleted" ->
                    /\ log' = [log EXCEPT ![r] = Emit(@, DeletedRecord(r))]
                    /\ result' = [result EXCEPT ![r] =
                                 [isError |-> TRUE, kind |-> "account_deleted",
                                  structured |-> FALSE, text |-> <<"account deleted">>]]
                    /\ pc' = [pc EXCEPT ![r] = "done"]
               [] d = "insufficient" ->
                    /\ log' = [log EXCEPT ![r] = Emit(@, BalanceCheckRecord(r, check))]
                    /\ result' = [result EXCEPT ![r] =
                                 [isError |-> TRUE, kind |-> "insufficient_tokens",
                                  structured |-> FALSE, text |-> <<"insufficient tokens">>]]
                    /\ pc' = [pc EXCEPT ![r] = "done"]
               [] OTHER -> Settle(r, d, "none")
    /\ UNCHANGED <<userOf, logicalOf, actionId, idsMade, nextId, execCount,
                   attempts, debitIds, debitOk, thrown>>
    /\ UNCHANGED <<ledgerVars, inflight, initBalance>>
    /\ UNCHANGED nonToolVars

\* Step 4: execute(inputs) has run and returned or thrown; Step 4.5 follows in
\* the same stretch and returns or throws; then the debit is awaited.
\* how = "ok" | "execute_throws" | "process_throws"
\* (execCount is a history counter; the guard on it only keeps it finite.)
Execute(r, how) ==
    /\ pc[r] = "execute"
    /\ execCount[r] < 2
    /\ execCount' = [execCount EXCEPT ![r] = @ + 1]
    /\ LET err == CASE how = "execute_throws" -> "ExecuteError"
                     [] how = "process_throws" -> "ProcessError"
                     [] OTHER -> thrown[r]
           afterExec == AfterExecute(how = "execute_throws")
       IN /\ thrown' = [thrown EXCEPT ![r] = err]
          /\ Settle(r, IF afterExec = "process"
                       THEN AfterProcess(how = "process_throws")
                       ELSE afterExec, err)
    /\ UNCHANGED <<userOf, logicalOf, actionId, idsMade, nextId, bc,
                   attempts, debitIds, debitOk>>
    /\ UNCHANGED <<ledgerVars, inflight, initBalance>>
    /\ UNCHANGED nonToolVars

\* The store runs one debit unit for (u, aid) and commits its effects.
StoreRun(u, aid, out) ==
    /\ balance' = [balance EXCEPT ![u] = out.balance]
    /\ recs' = out.recs
    /\ applied' = [applied EXCEPT ![aid] = IF out.applied THEN @ + 1 ELSE @]
    /\ replies' = [replies EXCEPT ![aid] =
                     IF out.error = "none"
                     THEN @ \cup {<<out.success, out.balanceAfter>>}
                     ELSE @]
    /\ calls' = [calls EXCEPT ![aid] = @ + 1]

\* Step 5: one attempt of consumeTokensWithRetry.  fault = "lost": a transient
\* storage error, no reply arrives; the unit stays in flight and the store may
\* run it at once, after later attempts, after the invocation has returned,
\* or never (the store was unavailable).  fault = "none": the unit runs and its
\* outcome is returned.
ConsumeAttempt(r, fault) ==
    /\ pc[r] = "debit"
    /\ attempts[r] < MaxAttempts
    /\ LET aid == DebitActionId(r)
           u == userOf[r]
           out == Debit(balance[u], deleted[u], recs, u, ToolCost, aid)
           n == attempts[r] + 1
           transient == fault # "none"
           threw == IF transient THEN n >= MaxAttempts ELSE out.error # "none"
           err == IF ~threw THEN thrown[r]
                  ELSE IF transient THEN "PersistenceFailed"
                  ELSE out.error
       IN /\ attempts' = [attempts EXCEPT ![r] = n]
          /\ debitIds' = [debitIds EXCEPT ![r] = @ \cup {aid}]
          /\ CASE fault = "lost" ->
                    /\ inflight' = [inflight EXCEPT ![u][aid] = @ + 1]
                    /\ UNCHANGED ledgerVars
               [] OTHER ->
                    /\ StoreRun(u, aid, out)
                    /\ UNCHANGED <<deleted, inflight>>
          /\ IF transient /\ ~threw
             THEN UNCHANGED <<pc, thrown, debitOk, log, result>>
             ELSE /\ Settle(r, AfterDebit(threw), err)
                  /\ debitOk' = [debitOk EXCEPT ![r] = ~threw]
                  /\ thrown' = [thrown EXCEPT ![r] = err]
    /\ UNCHANGED <<userOf, logicalOf, actionId, idsMade, nextId, bc, execCount,
                   initBalance>>
    /\ UNCHANGED nonToolVars

\* The store runs a debit unit whose reply nobody is waiting for any more.
StoreRunsLate(u, aid) ==
    /\ inflight[u][aid] > 0
    /\ inflight' = [inflight EXCEPT ![u][aid] = @ - 1]
    /\ StoreRun(u, aid, Debit(balance[u], deleted[u], recs, u, ToolCost, aid))
    /\ UNCHANGED <<pc, execVars, deleted, initBalance>>
    /\ UNCHANGED nonToolVars

\* an identity is flagged deactivated (soft delete) by the account service
SoftDelete(u) ==
    /\ ~deleted[u]
    /\ deleted' = [deleted EXCEPT ![u] = TRUE]
    /\ UNCHANGED <<pc, execVars, balance, recs, applied, replies, calls, inflight, initBalance>>
    /\ UNCHANGED nonToolVars

\* ---------------------------------------------------------------- sessions
\* validateAndRefreshSession (src/src/auth/authkit-handler.ts), one action per
\* stretch of code between two awaits.  The reads of Date.now() within one
\* stretch give the same value.  USER_SESSIONS answers every get and put.

SessionTokens == {"tok1"}
Calls == 1..MaxCalls
\* session.refresh_token of a session that has none
NoToken == 0
\* the refresh token the session was created with
FirstRT == 1
\* what USER_SESSIONS.get answers for a key it does not hold
NoSession ==
    [email |-> "none", refresh_token |-> NoToken, expires_at |-> -1,
     last_accessed_at |-> -1]
\* the records a login may have left in the store
InitSessions ==
    {[email |-> "u1@example", refresh_token |-> t, expires_at |-> e,
      last_accessed_at |-> 0] : t \in {NoToken, FirstRT}, e \in 0..1}

NoValResult == [valid |-> FALSE, reason |-> "none", session |-> NoSession]
NoCall ==
    [pc |-> "idle", token |-> "tok1", session |-> NoSession, checkedAt |-> -1,
     newSession |-> NoSession, provider |-> "none", provCalls |-> 0,
     issued |-> NoToken, refreshedAt |-> -1, putAt |-> -1, ttl |-> -1,
     puts |-> 0, threw |-> FALSE, before |-> NoSession, after |-> NoSession,
     result |-> NoValResult]

\* the same duration in the unit of expirationTtl
SESSION_DURATION_SECONDS == SESSION_DURATION_MS

\* if (!session)
Missing(session) == session = NoSession

\* the missing record is reported as an expired one
NoSessionResultExpired == [valid |-> FALSE, reason |-> "EXPIRED", session |-> NoSession]

\* return { valid: false, reason: 'NO_SESSION' }
NoSessionResult == [valid |-> FALSE, reason |-> "NO_SESSION", session |-> NoSession]

\* the expiry instant itself counts as expired
IsExpiredInclusive(session, t) == session.expires_at <= t

\* if (session.expires_at < Date.now())
IsExpired(session, t) == session.expires_at < t

\* the refresh is tried whether or not there is a refresh token
HasRefreshTokenAlways(session) == TRUE

\* if (session.refresh_token)
HasRefreshToken(session) == session.refresh_token # NoToken

\* the session keeps the refresh token it had
NewSessionOldToken(session, refreshToken, t) ==
    [session EXCEPT !.expires_at = t + SESSION_DURATION_MS,
                    !.last_accessed_at = t]

\* the session keeps the expiry it had
NewSessionNotExtended(session, refreshToken, t) ==
    [session EXCEPT !.refresh_token = refreshToken, !.last_accessed_at = t]

\* const newSession = {...session, refresh_token, expires_at, last_accessed_at}
NewSession(session, refreshToken, t) ==
    [session EXCEPT !.refresh_token = refreshToken,
                    !.expires_at = t + SESSION_DURATION_MS,
                    !.last_accessed_at = t]

\* const updatedSession = {...session, last_accessed_at: Date.now()}
UpdatedSession(session, t) == [session EXCEPT !.last_accessed_at = t]

\* the entry is stored to lapse with the session's expires_at
PutTtlUntilExpiry(session, t) == session.expires_at

\* { expirationTtl: SESSION_DURATION_SECONDS }: the instant the entry put at t
\* lapses
PutTtl(session, t) == t + SESSION_DURATION_SECONDS

\* the provider exchanges a refresh token it accepts
Accepts(valid, t) == t \in valid

\* the exchanged refresh token stays good
ExchangeReusable(valid, t, new) == valid \cup {new}

\* the refresh tokens the provider accepts after it has exchanged t for new:
\* a refresh token is good for one exchange
Exchange(valid, t, new) == (valid \ {t}) \cup {new}

\* the catch block is left without a return and falls through to EXPIRED
CatchRefreshFallsThrough(kind) == "EXPIRED"

\* only the provider's refusal is caught, anything else is thrown on
CatchRefreshRethrows(kind) == IF kind = "unexpected" THEN "throw" ELSE "REFRESH_FAILED"

\* catch (error) { ...; return { valid: false, reason: 'REFRESH_FAILED' } }:
\* what the call does with an error of the given kind raised in the try block
CatchRefresh(kind) == "REFRESH_FAILED"

\* USER_SESSIONS.get has answered: the tests on the session; the call
\* returns, or awaits the identity provider, or awaits the put of the valid path
GetReturns(c) ==
    /\ LET session == kv[val[c].token]
           v == [val[c] EXCEPT !.session = session, !.checkedAt = now,
                               !.before = session, !.after = session]
       IN val' = [val EXCEPT ![c] =
                IF Missing(session)
                THEN [v EXCEPT !.pc = "done", !.result = NoSessionResult]
                ELSE IF IsExpired(session, now)
                THEN IF HasRefreshToken(session)
                     THEN [v EXCEPT !.pc = "refresh"]
                     ELSE [v EXCEPT !.pc = "done",
                                    !.result = [valid |-> FALSE, reason |-> "EXPIRED",
                                                session |-> NoSession]]
                ELSE [v EXCEPT !.pc = "put_valid",
                               !.newSession = UpdatedSession(session, now)]]
    /\ UNCHANGED <<now, kv, kvTtl, prvValid, nextRT>>
    /\ UNCHANGED nonSessVars

\* validateAndRefreshSession is called and USER_SESSIONS.get is awaited; the
\* step is taken at the instant the store answers the get
Validate(c) ==
    /\ val[c].pc = "idle"
    /\ \A q \in Calls : q < c => val[q].pc # "idle"
    /\ GetReturns(c)

\* authenticateWithRefreshToken has answered.  "ok": the provider exchanged
\* the token, which it accepts once only, for a new one; newSession is built
\* and its put awaited.  "rejected": the provider refused a token it does not
\* accept.  "unexpected": the call failed for another reason (network, 5xx).
ProviderReturns(c, outcome) ==
    /\ val[c].pc = "refresh"
    /\ LET t == val[c].session.refresh_token
           stored == kv[val[c].token]
           v == [val[c] EXCEPT !.provider = outcome, !.provCalls = @ + 1,
                               !.before = stored, !.after = stored]
       IN /\ outcome = "ok" => Accepts(prvValid, t)
          /\ outcome = "rejected" => ~Accepts(prvValid, t)
          /\ IF outcome = "ok"
             THEN /\ prvValid' = Exchange(prvValid, t, nextRT)
                  /\ nextRT' = nextRT + 1
                  /\ val' = [val EXCEPT ![c] =
                           [v EXCEPT !.pc = "put_refresh", !.issued = nextRT,
                                     !.refreshedAt = now,
                                     !.newSession = NewSession(val[c].session, nextRT, now)]]
             ELSE /\ UNCHANGED <<prvValid, nextRT>>
                  /\ val' = [val EXCEPT ![c] =
                           LET how == CatchRefresh(outcome)
                           IN IF how = "throw"
                              THEN [v EXCEPT !.pc = "done", !.threw = TRUE]
                              ELSE [v EXCEPT !.pc = "done",
                                             !.result = [valid |-> FALSE, reason |-> how,
                                                         session |-> NoSession]]]
    /\ UNCHANGED <<now, kv, kvTtl>>
    /\ UNCHANGED nonSessVars

\* USER_SESSIONS.put has stored the record the call built, newSession on the
\* refresh path and updatedSession on the valid path; the call returns it
PutReturns(c) ==
    /\ val[c].pc \in {"put_refresh", "put_valid"}
    /\ kv' = [kv EXCEPT ![val[c].token] = val[c].newSession]
    /\ kvTtl' = [kvTtl EXCEPT ![val[c].token] = PutTtl(val[c].newSession, now)]
    /\ val' = [val EXCEPT ![c] =
             [@ EXCEPT !.pc = "done", !.puts = @ + 1, !.putAt = now,
                       !.ttl = kvTtl'[val[c].token],
                       !.before = kv[val[c].token],
                       !.after = kv'[val[c].token],
                       !.result = [valid |-> TRUE, reason |-> "none",
                                   session |-> val[c].newSession]]]
    /\ UNCHANGED <<now, prvValid, nextRT>>
    /\ UNCHANGED nonSessVars

\* time passes
Tick ==
    /\ now < MaxTime
    /\ now' = now + 1
    /\ UNCHANGED <<kv, kvTtl, prvValid, nextRT, val>>
    /\ UNCHANGED nonSessVars

\* the identity provider revokes a refresh token
Revoke(t) ==
    /\ t \in prvValid
    /\ prvValid' = prvValid \ {t}
    /\ UNCHANGED <<now, kv, kvTtl, nextRT, val>>
    /\ UNCHANGED nonSessVars

\* USER_SESSIONS drops an entry whose time to live has run out
Evict(k) ==
    /\ kv[k] # NoSession
    /\ now >= kvTtl[k]
    /\ kv' = [kv EXCEPT ![k] = NoSession]
    /\ UNCHANGED <<now, kvTtl, prvValid, nextRT, val>>
    /\ UNCHANGED nonSessVars

\* no session traffic
SessionIdle ==
    /\ now = 0
    /\ kv = [k \in SessionTokens |-> NoSession]
    /\ kvTtl = [k \in SessionTokens |-> 0]
    /\ prvValid = {}
    /\ nextRT = FirstRT + 1
    /\ val = [c \in Calls |-> NoCall]

\* ------------------------------------------------------------- /authorize
\* The session flow of GET /authorize (src/src/auth/authkit-handler.ts), for
\* requests with a client id and with USER_SESSIONS bound.

Reqs == 1..MaxReq
\* c.req.url of the request
ReqUrl == "req.url"
NoResponse == [status |-> 0, body |-> <<>>]
\* what validateAndRefreshSession can hand to the handler
ValidationResults ==
    {[valid |-> FALSE, reason |-> why, session |-> NoSession] :
        why \in {"NO_SESSION", "EXPIRED", "REFRESH_FAILED"}}
    \cup {[valid |-> TRUE, reason |-> "none", session |-> x] : x \in InitSessions}
NoReq ==
    [pc |-> "idle", hasToken |-> FALSE, result |-> NoValResult,
     dbUser |-> "none", completed |-> FALSE, response |-> NoResponse]

\* Response.redirect of the centralized login, return_to set to the request
LoginRedirect(url) ==
    [status |-> 302,
     body |-> <<"https://panel.wtyczki.ai/auth/login-custom", "return_to", url>>]

\* the redirect tells the login page why the session was refused
InvalidResponseWithReason(res, url) ==
    [status |-> 302,
     body |-> <<"https://panel.wtyczki.ai/auth/login-custom", "return_to", url,
                res.reason>>]

\* if (!result.valid) { ... return Response.redirect(url.toString(), 302) }
InvalidResponse(res, url) == LoginRedirect(url)

\* c.html(formatRegistrationPage(session.email, c.req.url), 403)
RegistrationPage(session, url) ==
    [status |-> 403, body |-> <<"registration page", session.email, url>>]

\* c.html(formatDeletedPage(), 403)
DeletedPage == [status |-> 403, body |-> <<"deleted page">>]

\* c.html(formatSuccessPage(session.email, redirectTo), 200)
SuccessPage(session) ==
    [status |-> 200, body |-> <<"success page", session.email, "redirectTo">>]

\* GET /authorize arrives.  Without a workos_session cookie the request is
\* sent to the login; with one, validateAndRefreshSession is awaited and has
\* answered `res`: a refused session is sent to the login, for a valid one
\* getUserByEmail is awaited.
Authorize(q, hasToken, res) ==
    /\ areq[q].pc = "idle"
    /\ \A o \in Reqs : o < q => areq[o].pc # "idle"
    /\ ~hasToken => res = NoValResult
    /\ hasToken => res \in ValidationResults
    /\ areq' = [areq EXCEPT ![q] =
              LET a == [@ EXCEPT !.hasToken = hasToken, !.result = res]
              IN IF ~hasToken
                 THEN [a EXCEPT !.pc = "done", !.response = LoginRedirect(ReqUrl)]
                 ELSE IF ~res.valid
                 THEN [a EXCEPT !.pc = "done",
                                !.response = InvalidResponse(res, ReqUrl)]
                 ELSE [a EXCEPT !.pc = "lookup"]]
    /\ UNCHANGED nonAuthVars

IsDeletedNever(dbUser) == FALSE

\* dbUser.is_deleted === 1
IsDeleted(dbUser) == dbUser = "deleted"

\* getUserByEmail has answered: no such user, a deleted user, or an active
\* one, for whom completeAuthorization is awaited
UserLookedUp(q, dbUser) ==
    /\ areq[q].pc = "lookup"
    /\ areq' = [areq EXCEPT ![q] =
              LET a == [@ EXCEPT !.dbUser = dbUser]
              IN CASE dbUser = "none" ->
                        [a EXCEPT !.pc = "done",
                                  !.response = RegistrationPage(a.result.session, ReqUrl)]
                   [] IsDeleted(dbUser) ->
                        [a EXCEPT !.pc = "done", !.response = DeletedPage]
                   [] OTHER -> [a EXCEPT !.pc = "complete"]]
    /\ UNCHANGED nonAuthVars

\* completeAuthorization has answered; the success page is returned
AuthorizationCompleted(q) ==
    /\ areq[q].pc = "complete"
    /\ areq' = [areq EXCEPT ![q] =
              [@ EXCEPT !.pc = "done", !.completed = TRUE,
                        !.response = SuccessPage(areq[q].result.session)]]
    /\ UNCHANGED nonAuthVars

\* no /authorize traffic
AuthIdle == areq = [q \in Reqs |-> NoReq]

\* ----------------------------------------------------------------- LRUCache
\* class LRUCache and serverCache (src/unnamed/part_000).  The Map is a
\* sequence of entries in insertion order, which is the order its iterator
\* follows; lastAccessed is the value of Date.now() at the access.

\* user ids, one more than the cache can hold
CacheKeys == 1..(MAX_CACHED_SERVERS + 1)
\* the McpServer objects a run constructs
Insts == 1..2
Emails == {"e1", "e2"}

\* new McpServer({ name: "Skeleton MCP Server (API Key)", version: "1.0.0" }):
\* no tool is registered on it, nothing of the user is kept in it
NewServerKeepsEmail(userId, email, inst) ==
    [name |-> "Skeleton MCP Server (API Key)", version |-> "1.0.0",
     tools |-> {}, email |-> email, inst |-> inst]

NewServer(userId, email, inst) ==
    [name |-> "Skeleton MCP Server (API Key)", version |-> "1.0.0",
     tools |-> {}, email |-> "none", inst |-> inst]

\* a server but for the identity of the object
ServerConfig(server) == [server EXCEPT !.inst = 0]
Servers == {NewServer(u, e, i) : u \in CacheKeys, e \in Emails, i \in Insts}

\* no McpServer
NoServer ==
    [name |-> "none", version |-> "none", tools |-> {}, email |-> "none",
     inst |-> 0]

NoOp ==
    [op |-> "none", key |-> 0, value |-> NoServer, evicted |-> {}, lru |-> 0, size |-> 0,
     had |-> FALSE]

\* position of the key's entry in the Map, 0 if it has none
IndexOf(c, key) ==
    IF \E i \in 1..Len(c) : c[i].key = key
    THEN CHOOSE i \in 1..Len(c) : c[i].key = key
    ELSE 0

\* has(key): this.cache.has(key)
Has(c, key) == IndexOf(c, key) # 0

\* c without its i-th entry
Without(c, i) == [j \in 1..(Len(c) - 1) |-> IF j < i THEN c[j] ELSE c[j + 1]]

\* Map.set: the entry of a key that is present is replaced in place, the entry
\* of a new key goes to the end
MapSet(c, key, entry) ==
    IF Has(c, key) THEN [c EXCEPT ![IndexOf(c, key)] = entry]
    ELSE Append(c, entry)

\* the loop of evictLRU from entry i on: oldest is the position of oldestKey
\* (0 while it is undefined and oldestTime is Infinity)
RECURSIVE ScanOldest(_, _, _)
ScanOldest(c, i, oldest) ==
    IF i > Len(c) THEN oldest
    ELSE IF oldest = 0 \/ c[i].lastAccessed < c[oldest].lastAccessed
         THEN ScanOldest(c, i + 1, i)
         ELSE ScanOldest(c, i + 1, oldest)

\* evictLRU(): the Map without the entry the scan found
EvictLRU(c) ==
    LET oldest == ScanOldest(c, 1, 0)
    IN IF oldest = 0 THEN c ELSE Without(c, oldest)

\* the cache is counted full one entry late
NeedsEvictionLate(c, key) == Len(c) > MAX_CACHED_SERVERS /\ ~Has(c, key)

\* a full cache evicts on every set
NeedsEvictionAnyKey(c, key) == Len(c) >= MAX_CACHED_SERVERS

\* if (this.cache.size >= this.maxSize && !this.cache.has(key))
NeedsEviction(c, key) == Len(c) >= MAX_CACHED_SERVERS /\ ~Has(c, key)

\* set(key, value) at clock t
Set(c, key, value, t) ==
    MapSet(IF NeedsEviction(c, key) THEN EvictLRU(c) ELSE c, key,
           [key |-> key, value |-> value, lastAccessed |-> t])

\* get(key) at clock t: the Map afterwards
Get(c, key, t) ==
    IF Has(c, key)
    THEN [c EXCEPT ![IndexOf(c, key)].lastAccessed = t]
    ELSE c

\* the keys of a Map
KeysOf(c) == {c[i].key : i \in 1..Len(c)}
\* the order of accesses: the key goes to the most recent end
Touch(order, key) == Append(SelectSeq(order, LAMBDA k : k # key), key)
\* the order of accesses of the keys still in the Map
Kept(order, c) == SelectSeq(order, LAMBDA k : k \in KeysOf(c))
\* the key whose last access is the oldest, 0 if there is none
LruOf(order) == IF order = <<>> THEN 0 ELSE Head(order)

\* what lastOp records of an operation that takes the Map from c to d
OpRecord(op, key, value, c, d) ==
    [op |-> op, key |-> key, value |-> value, evicted |-> KeysOf(c) \ KeysOf(d),
     lru |-> LruOf(recency), size |-> Len(c), had |-> Has(c, key)]

\* serverCache.get(key)
CacheGet(key) ==
    /\ cache' = Get(cache, key, now)
    /\ recency' = IF Has(cache, key) THEN Touch(recency, key) ELSE recency
    /\ lastOp' = OpRecord("get", key, NoServer, cache, cache')
    /\ UNCHANGED <<now, api>>
    /\ UNCHANGED nonCacheVars

\* serverCache.set(key, value)
CacheSet(key, value) ==
    /\ cache' = Set(cache, key, value, now)
    /\ recency' = Touch(Kept(recency, cache'), key)
    /\ lastOp' = OpRecord("set", key, value, cache, cache')
    /\ UNCHANGED <<now, api>>
    /\ UNCHANGED nonCacheVars

CacheHasTouches(key) ==
    /\ cache' = Get(cache, key, now)
    /\ recency' = IF Has(cache, key) THEN Touch(recency, key) ELSE recency
    /\ lastOp' = OpRecord("has", key, NoServer, cache, cache)
    /\ UNCHANGED <<now, api>>
    /\ UNCHANGED nonCacheVars

\* serverCache.has(key)
CacheHas(key) ==
    /\ lastOp' = OpRecord("has", key, NoServer, cache, cache)
    /\ UNCHANGED <<now, cache, recency, api>>
    /\ UNCHANGED nonCacheVars

\* serverCache.clear()
CacheClear ==
    /\ cache' = <<>>
    /\ recency' = <<>>
    /\ lastOp' = OpRecord("clear", 0, NoServer, cache, cache')
    /\ UNCHANGED <<now, api>>
    /\ UNCHANGED nonCacheVars

\* time passes between two operations on the cache
CacheTick ==
    /\ now < MaxCacheTime
    /\ now' = now + 1
    /\ UNCHANGED cacheVars
    /\ UNCHANGED nonCacheVars

\* ------------------------------------------------- API-key requests

NoTool == "none"
OAuthTools == {"start_quiz"}

\* requests of an authenticated API-key user: GET /sse, or a JSON-RPC 2.0
\* request to /mcp
Requests ==
    {[path |-> "/sse", method |-> "none", tool |-> NoTool]}
        \cup {[path |-> "/mcp", method |-> m, tool |-> NoTool] :
                 m \in {"initialize", "ping", "tools/list"}}
        \cup {[path |-> "/mcp", method |-> "tools/call", tool |-> t] :
                 t \in OAuthTools}

NoRequest == [path |-> "none", method |-> "none", tool |-> NoTool]
NoRpcResult == [kind |-> "none", tools |-> {}]
NoRpcError == [code |-> 0, message |-> "none", arg |-> "none"]
NoRpcResponse == [status |-> 0, result |-> NoRpcResult, error |-> NoRpcError]

JsonRpcResult(res) == [status |-> 200, result |-> res, error |-> NoRpcError]
JsonRpcError(code, message, arg) ==
    [status |-> 200, result |-> NoRpcResult,
     error |-> [code |-> code, message |-> message, arg |-> arg]]

HandleInitialize == JsonRpcResult([kind |-> "initialize", tools |-> {}])
HandlePing == JsonRpcResult([kind |-> "empty", tools |-> {}])

\* tools/list over the OAuth path: the tools registered by Quiz.init
OAuthToolsList == JsonRpcResult([kind |-> "tools", tools |-> OAuthTools])

\* tools/list over the API-key path: the hand-written list
HandleToolsList(server) == JsonRpcResult([kind |-> "tools", tools |-> {}])

\* tools/call over the API-key path: the switch has a default case only
HandleToolsCall(server, tool) ==
    IF tool = NoTool
    THEN JsonRpcError(-32602, "Invalid params: name is required", "none")
    ELSE JsonRpcError(-32601, "Unknown tool", tool)

HandleHTTPTransport(server, req) ==
    CASE req.method = "initialize" -> HandleInitialize
      [] req.method = "ping" -> HandlePing
      [] req.method = "tools/list" -> HandleToolsList(server)
      [] req.method = "tools/call" -> HandleToolsCall(server, req.tool)
      [] OTHER -> JsonRpcError(-32601, "Method not found", req.method)

\* the event stream opened for /sse
HandleSSETransport(server) == JsonRpcResult([kind |-> "sse", tools |-> {}])

Respond(server, req) ==
    IF req.path = "/sse"
    THEN HandleSSETransport(server)
    ELSE HandleHTTPTransport(server, req)

NoApi ==
    [req |-> NoRequest, user |-> 0, email |-> "none", hit |-> FALSE,
     server |-> NoServer, response |-> NoRpcResponse]

\* the server getOrCreateServer returns, given the server a miss creates
GetOrCreateServer(c, userId, created) ==
    IF Has(c, userId) THEN c[IndexOf(c, userId)].value ELSE created

\* handleApiKeyRequest for a valid key of user userId whose row holds email:
\* getOrCreateServer, then the transport of the path
ApiRequest(userId, email, req, inst) ==
    LET created == NewServer(userId, email, inst)
        hit == Has(cache, userId)
        server == GetOrCreateServer(cache, userId, created)
    IN  /\ cache' = IF hit
                    THEN Get(cache, userId, now)
                    ELSE Set(cache, userId, created, now)
        /\ recency' = Touch(Kept(recency, cache'), userId)
        /\ lastOp' = IF hit
                     THEN OpRecord("get", userId, NoServer, cache, cache')
                     ELSE OpRecord("set", userId, created, cache, cache')
        /\ api' = [req |-> req, user |-> userId, email |-> email, hit |-> hit,
                   server |-> server, response |-> Respond(server, req)]
        /\ UNCHANGED now
        /\ UNCHANGED nonCacheVars

\* the cache is empty and no API-key request has arrived
CacheIdle ==
    /\ cache = <<>>
    /\ recency = <<>>
    /\ lastOp = NoOp
    /\ api = NoApi

\* ------------------------------------------------------------ routing

\* a header value is a sequence of these pieces of text; "wtyk_" is "wty"
\* followed by "k_", and no piece shares a character with "Bearer "
Pieces == {"Bearer ", "wty", "k_", "x"}
RECURSIVE Texts(_)
Texts(n) ==
    IF n = 0
    THEN {<<>>}
    ELSE Texts(n - 1)
             \cup {Append(t, p) : t \in {u \in Texts(n - 1) : Len(u) = n - 1},
                                  p \in Pieces}

\* request.headers.get("Authorization") of a request without the header
NullHeader == <<"null">>
Headers == Texts(MaxHeaderLen) \cup {NullHeader}
Pathnames ==
    {"/sse", "/mcp", "/authorize", "/callback", "/token", "/register", "/"}

\* text.replace(piece, ""): the first occurrence is removed, wherever it is
RECURSIVE Replace(_, _)
Replace(text, piece) ==
    IF text = <<>>
    THEN <<>>
    ELSE IF Head(text) = piece
         THEN Tail(text)
         ELSE <<Head(text)>> \o Replace(Tail(text), piece)

\* text.startsWith("wtyk_")
StartsWithWtyk(text) == Len(text) >= 2 /\ text[1] = "wty" /\ text[2] = "k_"

IsApiKeyRequest(pathname, authHeader) ==
    IF pathname # "/sse" /\ pathname # "/mcp"
    THEN FALSE
    ELSE IF authHeader = NullHeader \/ authHeader = <<>>
         THEN FALSE
         ELSE StartsWithWtyk(Replace(authHeader, "Bearer "))

NoRoute ==
    [pc |-> "idle", pathname |-> "none", authHeader |-> NullHeader,
     handler |-> "none"]

\* fetch: hands the request to handleApiKeyRequest or to the OAuth provider
Fetch(pathname, authHeader) ==
    /\ route' = [pc |-> "done", pathname |-> pathname,
                 authHeader |-> authHeader,
                 handler |-> IF IsApiKeyRequest(pathname, authHeader)
                             THEN "handleApiKeyRequest"
                             ELSE "oauthProvider.fetch"]
    /\ UNCHANGED nonRouteVars

\* fetch has seen no request
RouteIdle == route = NoRoute

\* ------------------------------------------------------------- quiz widget
\* QuizWidget (src/web/widgets/quiz.tsx).  An event handler or a timeout
\* callback runs to its end and React renders before the next one starts, so
\* each of them is one action.  useApp has connected the app to its host.

\* QUIZ_QUESTIONS: the id and the correctAnswer of each question
QUIZ_QUESTIONS ==
    << [id |-> 1, correctAnswer |-> 2], [id |-> 2, correctAnswer |-> 1],
       [id |-> 3, correctAnswer |-> 2], [id |-> 4, correctAnswer |-> 2],
       [id |-> 5, correctAnswer |-> 2], [id |-> 6, correctAnswer |-> 1],
       [id |-> 7, correctAnswer |-> 2], [id |-> 8, correctAnswer |-> 0] >>
\* every question has four answers
NumAnswers == 4
\* null, as a selected answer and as an entry of userAnswers
Null == -1

\* quizData.questions[i], i counted from 0
QuestionAt(i) == QUIZ_QUESTIONS[i + 1]

\* the answer buttons the user clicks on question i: the correct one and the
\* wrong ones next to it
Clicks(i) ==
    {(QuestionAt(i).correctAnswer + k) % NumAnswers : k \in 0..MaxWrong}

\* the value useState<QuizData> starts with and handleRestart sets
InitialQuizData ==
    [currentQuestionIndex |-> 0, score |-> 0,
     userAnswers |-> [i \in 1..Len(QUIZ_QUESTIONS) |-> Null]]

\* the recorded answers that are the correct answer of their question
CorrectAnswers(userAnswers) ==
    {i \in 1..Len(QUIZ_QUESTIONS) : userAnswers[i] = QUIZ_QUESTIONS[i].correctAnswer}
\* the questions with a recorded answer
Answered(userAnswers) ==
    {i \in 1..Len(QUIZ_QUESTIONS) : userAnswers[i] # Null}

IsLastQuestionEarly(index) == index >= Len(QUIZ_QUESTIONS) - 2

\* quizData.currentQuestionIndex === quizData.questions.length - 1
IsLastQuestion(index) == index = Len(QUIZ_QUESTIONS) - 1

ShowFeedbackNeverBlocks(showFeedback) == FALSE

\* if (showFeedback) return;
ShowFeedbackBlocks(showFeedback) == showFeedback

\* the score the closure saw, without the answer just given
FinalScoreStale(timer) == timer.score

\* const finalScore = isCorrect ? quizData.score + 1 : quizData.score
FinalScore(timer) == IF timer.isCorrect THEN timer.score + 1 ELSE timer.score

NextIndexStuck(index) == index

\* currentQuestionIndex: prev.currentQuestionIndex + 1
NextIndex(index) == index + 1

\* the text of the completion message: the score and the number of questions
CompletionMessage(finalScore) ==
    [role |-> "user", score |-> finalScore, total |-> Len(QUIZ_QUESTIONS)]

WidgetStart ==
    [state |-> "IDLE", quizData |-> InitialQuizData, selectedAnswer |-> Null,
     showFeedback |-> FALSE, timers |-> <<>>, sent |-> <<>>, answered |-> 0,
     shown |-> <<>>, orders |-> {}, lastEvent |-> "none"]

\* the Start Quiz button of the IDLE screen: setState('PLAYING')
StartQuiz ==
    /\ w.state = "IDLE"
    /\ w' = [w EXCEPT !.state = "PLAYING", !.lastEvent = "start"]
    /\ UNCHANGED nonWidgetVars

\* handleAnswerClick(answerIndex), from an answer button of the PLAYING
\* screen; the callback handed to setTimeout keeps isLastQuestion, isCorrect
\* and quizData.score of this render
HandleAnswerClick(answerIndex) ==
    /\ w.state = "PLAYING"
    /\ w.quizData.currentQuestionIndex < Len(QUIZ_QUESTIONS)
    /\ answerIndex \in Clicks(w.quizData.currentQuestionIndex)
    /\ IF ShowFeedbackBlocks(w.showFeedback)
       THEN w' = [w EXCEPT !.lastEvent = "ignored"]
       ELSE LET index == w.quizData.currentQuestionIndex
                isCorrect == answerIndex = QuestionAt(index).correctAnswer
            IN w' = [w EXCEPT
                       !.selectedAnswer = answerIndex,
                       !.showFeedback = TRUE,
                       !.quizData.score = IF isCorrect THEN @ + 1 ELSE @,
                       !.quizData.userAnswers[index + 1] = answerIndex,
                       !.timers = Append(@, [isLastQuestion |-> IsLastQuestion(index),
                                             isCorrect |-> isCorrect,
                                             score |-> w.quizData.score]),
                       !.answered = @ + 1,
                       !.shown = Append(@, QuestionAt(index).id),
                       !.lastEvent = "answer"]
    /\ UNCHANGED nonWidgetVars

\* the callback of setTimeout(..., 800) runs
TimerFires ==
    /\ w.timers # <<>>
    /\ LET timer == Head(w.timers)
           cleared == [w EXCEPT !.timers = Tail(@), !.showFeedback = FALSE,
                                !.selectedAnswer = Null, !.lastEvent = "timer"]
       IN IF timer.isLastQuestion
          THEN w' = [cleared EXCEPT
                       !.state = "FINISHED",
                       !.sent = Append(@, CompletionMessage(FinalScore(timer))),
                       !.orders = @ \cup {w.shown}]
          ELSE w' = [cleared EXCEPT
                       !.quizData.currentQuestionIndex = NextIndex(@)]
    /\ UNCHANGED nonWidgetVars

\* handleRestart, from the Try Again button of the FINISHED screen; a new
\* run begins, with no answer and no message of its own yet
HandleRestart ==
    /\ w.state = "FINISHED"
    /\ w' = [w EXCEPT !.state = "IDLE", !.quizData = InitialQuizData,
                      !.sent = <<>>, !.answered = 0, !.shown = <<>>,
                      !.lastEvent = "restart"]
    /\ UNCHANGED nonWidgetVars

\* the widget has been mounted
WidgetIdle == w = WidgetStart

ToolInit ==
    /\ pc = [r \in Invs |-> "idle"]
    /\ userOf = [r \in Invs |-> "u1"]
    /\ logicalOf = [r \in Invs |-> 0]
    /\ actionId = [r \in Invs |-> NoId]
    /\ idsMade = [r \in Invs |-> 0]
    /\ nextId = 1
    /\ bc = [r \in Invs |-> NoCheck]
    /\ execCount = [r \in Invs |-> 0]
    /\ attempts = [r \in Invs |-> 0]
    /\ debitIds = [r \in Invs |-> {}]
    /\ debitOk = [r \in Invs |-> FALSE]
    /\ thrown = [r \in Invs |-> "none"]
    /\ result = [r \in Invs |-> NoResult]
    /\ log = [r \in Invs |-> <<>>]
    /\ balance \in [Users -> InitBalances]
    /\ deleted = [u \in Users |-> FALSE]
    /\ recs = {}
    /\ initBalance = balance
    /\ applied = [a \in IdSpace |-> 0]
    /\ replies = [a \in IdSpace |-> {}]
    /\ calls = [a \in IdSpace |-> 0]
    /\ inflight = [u \in Users |-> [a \in IdSpace |-> 0]]

Init == ToolInit /\ SessionIdle /\ AuthIdle /\ CacheIdle /\ RouteIdle /\ WidgetIdle

Next ==
    \/ \E r \in Invs, u \in Users, q \in 0..MaxInv : Invoke(r, u, q)
    \/ \E r \in Invs : CheckStep(r)
    \/ \E r \in Invs, how \in {"ok", "execute_throws", "process_throws"} : Execute(r, how)
    \/ \E r \in Invs, fault \in {"none", "lost"} : ConsumeAttempt(r, fault)
    \/ \E u \in Users, a \in IdSpace : StoreRunsLate(u, a)
    \/ \E u \in Users : SoftDelete(u)

Spec == Init /\ [][Next]_vars

\* the session store after a login, or without one; no tool traffic
SessionInit ==
    /\ ToolInit
    /\ balance = [u \in Users |-> 0]
    /\ now = 0
    /\ kv \in [SessionTokens -> InitSessions \cup {NoSession}]
    /\ kvTtl = [k \in SessionTokens |->
                  IF kv[k] = NoSession THEN 0 ELSE kv[k].expires_at]
    /\ prvValid = {FirstRT}
    /\ nextRT = FirstRT + 1
    /\ val = [c \in Calls |-> NoCall]
    /\ AuthIdle /\ CacheIdle /\ RouteIdle /\ WidgetIdle

SessionNext ==
    \/ \E c \in Calls : Validate(c)
    \/ \E c \in Calls, outcome \in {"ok", "rejected", "unexpected"} : ProviderReturns(c, outcome)
    \/ \E c \in Calls : PutReturns(c)
    \/ Tick
    \/ \E t \in 1..(MaxCalls + 1) : Revoke(t)
    \/ \E k \in SessionTokens : Evict(k)

SessionSpec == SessionInit /\ [][SessionNext]_vars

\* no other traffic than GET /authorize
AuthorizeInit ==
    /\ ToolInit
    /\ balance = [u \in Users |-> 0]
    /\ SessionIdle /\ AuthIdle /\ CacheIdle /\ RouteIdle /\ WidgetIdle

AuthorizeNext ==
    \/ \E q \in Reqs, hasToken \in BOOLEAN,
          res \in ValidationResults \cup {NoValResult} : Authorize(q, hasToken, res)
    \/ \E q \in Reqs, dbUser \in {"none", "deleted", "active"} : UserLookedUp(q, dbUser)
    \/ \E q \in Reqs : AuthorizationCompleted(q)

AuthorizeSpec == AuthorizeInit /\ [][AuthorizeNext]_vars

\* a Worker has started: serverCache is empty
CacheInit ==
    /\ ToolInit
    /\ balance = [u \in Users |-> 0]
    /\ SessionIdle /\ AuthIdle /\ CacheIdle /\ RouteIdle /\ WidgetIdle

CacheNext ==
    \/ \E key \in CacheKeys : CacheGet(key)
    \/ \E key \in CacheKeys, value \in Servers : CacheSet(key, value)
    \/ \E key \in CacheKeys : CacheHas(key)
    \/ CacheClear
    \/ CacheTick

CacheSpec == CacheInit /\ [][CacheNext]_vars

ApiNext ==
    \/ \E userId \in CacheKeys, email \in Emails, req \in Requests :
          ApiRequest(userId, email, req, 1)
    \/ CacheClear
    \/ CacheTick

ApiSpec == CacheInit /\ [][ApiNext]_vars

RouteNext ==
    \E pathname \in Pathnames, authHeader \in Headers :
        Fetch(pathname, authHeader)

RouteSpec == CacheInit /\ [][RouteNext]_vars

WidgetNext ==
    \/ StartQuiz
    \/ \E answerIndex \in 0..(NumAnswers - 1) : HandleAnswerClick(answerIndex)
    \/ TimerFires
    \/ HandleRestart

WidgetSpec == CacheInit /\ [][WidgetNext]_vars

\* a user who answers the question in front of them
Answers ==
    /\ ~w.showFeedback
    /\ \E answerIndex \in 0..(NumAnswers - 1) : HandleAnswerClick(answerIndex)

\* the user keeps answering and keeps starting the quiz again; a timeout
\* that was set runs
WidgetLiveSpec ==
    /\ WidgetSpec
    /\ WF_vars(Answers)
    /\ WF_vars(TimerFires)
    /\ WF_vars(StartQuiz)
    /\ WF_vars(HandleRestart)

\* ------------------------------------------------------------- properties

Done(r) == pc[r] = "done"
Checked(r) == bc[r] # NoCheck
RecordsOf(a) == {rec \in recs : rec.actionId = a}
\* every check result the ledger could hand to the executor
CheckResults ==
    [sufficient : BOOLEAN, currentBalance : 0..(2 * ToolCost), userDeleted : BOOLEAN]
\* invocations under whose identifiers the balance was decremented
DebitedInvs == {r \in Invs : \E a \in debitIds[r] : applied[a] > 0}
\* invocations that belong to the caller's logical request l
InvsOf(l) == {r \in Invs : logicalOf[r] = l}

\* C1: within one invocation execute(inputs) is called at most once, and an
\* invocation that returned a success result called it exactly once.
C1_ExecuteOnce ==
    \A r \in Invs :
        /\ execCount[r] <= 1
        /\ (Done(r) /\ ~result[r].isError) => execCount[r] = 1

\* a success result that was reached through a retried debit
C1_Witness ==
    \E r \in Invs :
        Done(r) /\ ~result[r].isError /\ attempts[r] >= 2 /\ execCount[r] = 1

\* C2: when the balance check reported userDeleted, whatever balance and
\* `sufficient` it reported, the invocation has returned an error result
\* without calling execute and without attempting a debit.
C2_DeletedBlocks ==
    /\ \A check \in CheckResults :
          check.userDeleted => BalanceDecision(check) = "deleted"
    /\ \A r \in Invs :
          bc[r].userDeleted =>
              /\ Done(r)
              /\ result[r].isError
              /\ ~result[r].structured
              /\ execCount[r] = 0
              /\ attempts[r] = 0
              /\ debitIds[r] = {}

\* a deleted identity that holds enough tokens for the tool is turned away
C2_Witness ==
    \E r \in Invs :
        /\ bc[r].userDeleted
        /\ bc[r].currentBalance >= ToolCost
        /\ Done(r)
        /\ result[r].isError

\* C3: when the balance check reported an insufficient balance, the
\* invocation has returned an error result at once: execute was not called,
\* no debit was attempted, nothing was retried.
C3_InsufficientRejects ==
    \A r \in Invs :
        (Checked(r) /\ ~bc[r].userDeleted /\ ~bc[r].sufficient) =>
            /\ Done(r)
            /\ result[r].isError
            /\ ~result[r].structured
            /\ execCount[r] = 0
            /\ attempts[r] = 0
            /\ debitIds[r] = {}
            /\ Len(log[r]) = 1

\* balance 3 against a cost of 5
C3_Witness ==
    \E r \in Invs :
        /\ Checked(r)
        /\ ~bc[r].userDeleted
        /\ bc[r].currentBalance = ToolCost - 2
        /\ Done(r)
        /\ result[r].isError

\* C4 as stated: the business operation of an invocation is run only after
\* the debit of that invocation has succeeded.
C4_DebitBeforeOperation ==
    \A r \in Invs :
        execCount[r] > 0 => (debitOk[r] /\ applied[actionId[r]] > 0)

\* C4 as amended: the debit of an invocation is attempted only after its
\* business operation has run and returned and its output has been processed
\* without an error; no debit is attempted for an invocation whose operation
\* has not run or has thrown.
C4_OperationBeforeDebit ==
    \A r \in Invs :
        (attempts[r] > 0 \/ debitIds[r] # {} \/ pc[r] = "debit") =>
            /\ execCount[r] = 1
            /\ thrown[r] \notin {"ExecuteError", "ProcessError"}

\* an invocation whose debit was applied after its operation had run
C4_Witness ==
    \E r \in Invs :
        attempts[r] > 0 /\ applied[actionId[r]] = 1 /\ execCount[r] = 1

\* C5: an invocation generates exactly one actionId, before the balance
\* check; every debit attempt it makes, every idempotency record written for
\* it and its completion record carry that identifier.
C5_OneActionId ==
    \A r \in Invs :
        /\ pc[r] = "idle" => (idsMade[r] = 0 /\ ~Checked(r))
        /\ pc[r] # "idle" => (idsMade[r] = 1 /\ actionId[r] # NoId)
        /\ debitIds[r] \subseteq {actionId[r]}
        /\ \A i \in DOMAIN log[r] :
              log[r][i].event = "tool_completed" => log[r][i].action_id = actionId[r]
        /\ \A q \in Invs : (q # r /\ pc[q] # "idle" /\ pc[r] # "idle") => actionId[q] # actionId[r]

\* an invocation that retried its debit and wrote its completion record
C5_Witness ==
    \E r \in Invs :
        /\ attempts[r] >= 2
        /\ debitIds[r] = {actionId[r]}
        /\ \E i \in DOMAIN log[r] : log[r][i].event = "tool_completed"

\* C6 as stated: when the caller repeats a request, the repeated invocation
\* reaches the ledger with the actionId of the first one, and the request is
\* billed at most once.
C6_RetrySameActionId ==
    \A l \in Invs :
        /\ \A r1, r2 \in InvsOf(l) :
              (attempts[r1] > 0 /\ attempts[r2] > 0) => debitIds[r1] = debitIds[r2]
        /\ Cardinality(InvsOf(l) \cap DebitedInvs) <= 1

\* C7: a success result is returned only when consumeTokensWithRetry returned
\* without an error; when the debit failed terminally the invocation returns
\* an error result that does not carry the operation's output.
C7_SuccessOnlyAfterDebit ==
    \A r \in Invs :
        /\ (result[r].structured \/ result[r].kind = "success") => debitOk[r]
        /\ (Done(r) /\ ~result[r].isError) => debitOk[r]
        /\ (Done(r) /\ attempts[r] > 0 /\ ~debitOk[r]) =>
              (result[r].isError /\ ~result[r].structured)

\* a debit that failed on every attempt and ended in an error result
C7_Witness ==
    \E r \in Invs :
        /\ Done(r)
        /\ attempts[r] = MaxAttempts
        /\ thrown[r] = "PersistenceFailed"
        /\ result[r].isError

\* C8: the balance of an identity is never negative; a debit whose amount
\* exceeds the current balance is rejected and leaves the balance as it was
\* (the balance only ever changes by the amounts of the debits applied).
C8_NonNegative ==
    /\ \A u \in Users :
          /\ balance[u] >= 0
          /\ balance[u] + ToolCost * Cardinality({a \in IdSpace : applied[a] > 0}) = initBalance[u]
    /\ \A r \in Invs :
          thrown[r] = "InsufficientBalance" =>
              /\ applied[actionId[r]] = 0
              /\ RecordsOf(actionId[r]) = {}

\* a debit that passed the balance check and was rejected by the ledger
C8_Witness ==
    \E r \in Invs :
        /\ bc[r].sufficient
        /\ thrown[r] = "InsufficientBalance"
        /\ balance[userOf[r]] < ToolCost

\* C9: whatever number of debit calls carry one actionId, the balance is
\* decremented at most once and at most one idempotency record exists for it;
\* once a call has been answered there is exactly one decrement and one
\* record, and every answer is the recorded outcome.
C9_Idempotent ==
    \A a \in IdSpace :
        /\ applied[a] <= 1
        /\ Cardinality(RecordsOf(a)) <= 1
        /\ Cardinality(replies[a]) <= 1
        /\ replies[a] # {} =>
              /\ applied[a] = 1
              /\ Cardinality(RecordsOf(a)) = 1
              /\ \A rec \in RecordsOf(a) :
                    replies[a] = {<<rec.success, rec.balanceAfter>>}

\* the store ran the debit unit three times for one actionId, the lost ones
\* overlapping with the retries that followed them
C9_Witness ==
    \E a \in IdSpace :
        calls[a] = MaxAttempts /\ applied[a] = 1 /\ replies[a] # {}

\* C10: a debit that met transient failures and then succeeded, some of the
\* failed attempts having committed, ends with the balance a single
\* immediate success gives: every invocation whose debit returned is charged
\* the tool cost exactly once.
C10_RetryConverges ==
    /\ \A r \in Invs :
          debitOk[r] =>
              /\ applied[actionId[r]] = 1
              /\ \A rec \in RecordsOf(actionId[r]) : rec.amountDebited = ToolCost
    /\ \A u \in Users :
          balance[u] = initBalance[u] - ToolCost * Cardinality(DebitedInvs)

\* two transient failures, one of them committed by the store, then success
C10_Witness ==
    \E r \in Invs :
        /\ debitOk[r]
        /\ attempts[r] = MaxAttempts
        /\ calls[actionId[r]] = 2
        /\ balance[userOf[r]] = initBalance[userOf[r]] - ToolCost

\* the messages of the values the try block can catch: the operation's and the
\* output processing's exceptions and the errors of the debit
RawErrors ==
    {"ExecuteError", "ProcessError", "PersistenceFailed",
     "IdentityDeactivated", "InsufficientBalance"}

\* C11: no failure reply returned to the caller contains the raw text of a
\* thrown exception or of a storage error.
C11_NoRawErrorText ==
    \A r \in Invs :
        (Done(r) /\ result[r].isError) =>
            \A i \in 1..Len(result[r].text) : result[r].text[i] \notin RawErrors

\* the events that record how an invocation ended
OutcomeEvents == {"tool_completed", "tool_failed", "balance_check"}

C13_AuditFields ==
    \A r \in Invs :
        \A i \in 1..Len(log[r]) :
            {"user_id", "tool", "action_id", "tokens_consumed"}
                \subseteq DOMAIN log[r][i]

\* ------------------------------------------------------ session properties

Returned(c) == val[c].pc = "done"
\* the call found a record and tested its expiry
Tested(c) == val[c].pc # "idle" /\ ~Missing(val[c].session)
\* the call took the branch of the valid session
ValidPath(c) ==
    \/ val[c].pc = "put_valid"
    \/ Returned(c) /\ val[c].result.valid /\ val[c].provCalls = 0
\* the call took the branch of the expired session
ExpiredPath(c) ==
    \/ val[c].pc \in {"refresh", "put_refresh"}
    \/ Returned(c) /\ (val[c].provCalls > 0 \/ val[c].result.reason = "EXPIRED")
\* the call neither called the identity provider nor wrote the store
Untouched(c) ==
    val[c].provCalls = 0 /\ val[c].puts = 0 /\ val[c].after = val[c].before

\* C14: a call that finds no record under the token returns valid = false with
\* reason NO_SESSION; it does not throw, does not call the identity provider
\* and writes nothing to the store.
C14_NoSession ==
    \A c \in Calls :
        (Returned(c) /\ Missing(val[c].session)) =>
            /\ val[c].result = [valid |-> FALSE, reason |-> "NO_SESSION",
                                session |-> NoSession]
            /\ ~val[c].threw
            /\ Untouched(c)

\* a call has returned for a token without a record
C14_Witness ==
    \E c \in Calls :
        Returned(c) /\ kv[val[c].token] = NoSession /\ ~val[c].result.valid

\* C15: a call that finds a record takes the expired path exactly when the
\* clock it read is at or past the record's expires_at.
C15_ExpiredAtExpiry ==
    \A c \in Calls :
        Tested(c) =>
            /\ ExpiredPath(c) <=> val[c].checkedAt >= val[c].session.expires_at
            /\ ValidPath(c) <=> val[c].checkedAt < val[c].session.expires_at

\* C15 as amended: a call that finds a record takes the expired path exactly
\* when the clock it read is past the record's expires_at; at the instant of
\* expires_at itself it takes the valid path.
C15_ExpiredAfterExpiry ==
    \A c \in Calls :
        Tested(c) =>
            /\ ExpiredPath(c) <=> val[c].checkedAt > val[c].session.expires_at
            /\ ValidPath(c) <=> val[c].checkedAt <= val[c].session.expires_at

\* a validation at the instant of expiry returned the session as valid
C15_Witness ==
    \E c \in Calls :
        /\ Returned(c) /\ Tested(c)
        /\ val[c].checkedAt = val[c].session.expires_at
        /\ val[c].result.valid /\ val[c].puts = 1

C17_RefreshFailed ==
    \A c \in Calls :
        (Returned(c) /\ val[c].provider \in {"rejected", "unexpected"}) =>
            /\ val[c].result = [valid |-> FALSE, reason |-> "REFRESH_FAILED",
                                session |-> NoSession]
            /\ ~val[c].threw
            /\ val[c].puts = 0
            /\ val[c].after = val[c].before

\* a refresh with a revoked token was refused and the record stayed as read
C17_Witness ==
    \E c \in Calls :
        /\ Returned(c) /\ val[c].provider = "rejected"
        /\ val[c].result.reason = "REFRESH_FAILED"
        /\ kv[val[c].token] = val[c].session

\* C18: an unexpected error of the identity provider during a refresh is
\* thrown to the caller and not reported as REFRESH_FAILED.
C18_UnexpectedPropagates ==
    \A c \in Calls :
        (Returned(c) /\ val[c].provider = "unexpected") =>
            val[c].threw /\ val[c].result.reason # "REFRESH_FAILED"

\* C18 as amended: an unexpected error of the identity provider during a
\* refresh is caught like a refusal: the call returns valid = false with
\* reason REFRESH_FAILED and throws nothing.
C18_UnexpectedCaught ==
    \A c \in Calls :
        (Returned(c) /\ val[c].provider = "unexpected") =>
            /\ ~val[c].threw
            /\ ~val[c].result.valid
            /\ val[c].result.reason = "REFRESH_FAILED"

\* the provider failed unexpectedly on a token it still accepts
C18_Witness ==
    \E c \in Calls :
        /\ Returned(c) /\ val[c].provider = "unexpected"
        /\ val[c].session.refresh_token \in prvValid
        /\ val[c].result.reason = "REFRESH_FAILED"

\* C19: a call that finds an expired record without a refresh token returns
\* valid = false with reason EXPIRED; it does not call the identity provider
\* and does not write the store.
C19_ExpiredNoRefresh ==
    \A c \in Calls :
        (/\ Returned(c) /\ Tested(c)
         /\ val[c].session.expires_at < val[c].checkedAt
         /\ val[c].session.refresh_token = NoToken) =>
            /\ val[c].result = [valid |-> FALSE, reason |-> "EXPIRED",
                                session |-> NoSession]
            /\ ~val[c].threw
            /\ Untouched(c)

\* an expired session without a refresh token was refused
C19_Witness ==
    \E c \in Calls :
        /\ Returned(c) /\ Tested(c)
        /\ val[c].session.refresh_token = NoToken
        /\ val[c].result.reason = "EXPIRED"
        /\ kv[val[c].token] = val[c].session

\* C20: the record a successful refresh stores has an expires_at strictly
\* greater than that of the record it read and of the record it replaces in
\* the store.
C20_ExpiryGrows ==
    \A c \in Calls :
        (Returned(c) /\ val[c].provider = "ok") =>
            /\ val[c].before.expires_at < val[c].after.expires_at
            /\ val[c].session.expires_at < val[c].after.expires_at

\* a chain of two refreshes: the second replaced the record of the first
C20_Witness ==
    \E c, d \in Calls :
        /\ c # d
        /\ Returned(c) /\ val[c].provider = "ok"
        /\ Returned(d) /\ val[d].provider = "ok"
        /\ val[d].before = val[c].after

\* C21: under any interleaving of calls on one session token, no step replaces
\* the record stored under the token by one with a smaller expires_at.
C21_ExpiryNeverDecreases ==
    [][\A k \in SessionTokens :
          kv[k] # NoSession => kv'[k].expires_at >= kv[k].expires_at]_vars

\* C22: of the calls that present one refresh token to the identity provider
\* at most one has it exchanged, and a refresh token that has been exchanged
\* is not accepted again.
C22_OneRefreshWins ==
    /\ \A c, d \in Calls :
          (c # d /\ val[c].provider = "ok" /\ val[d].provider = "ok") =>
              val[c].session.refresh_token # val[d].session.refresh_token
    /\ \A c \in Calls :
          val[c].provider = "ok" =>
              ~Accepts(prvValid, val[c].session.refresh_token)

\* two calls read the same expired session; one refreshed it, the other was
\* refused with the token the first had used up
C22_Witness ==
    \E c, d \in Calls :
        /\ c # d
        /\ val[c].session = val[d].session
        /\ Returned(c) /\ val[c].provider = "ok" /\ val[c].result.valid
        /\ Returned(d) /\ val[d].provider = "rejected"
        /\ val[d].result.reason = "REFRESH_FAILED"

\* C23: a call that finds a record whose expires_at has not passed returns
\* valid = true without calling the identity provider; the record it returns
\* and stores is the one it read with last_accessed_at set to the clock, so
\* email, expires_at and refresh_token are as read, and the entry is stored
\* to lapse one session duration after the put.
C23_ValidPathFrame ==
    \A c \in Calls :
        (/\ Returned(c) /\ Tested(c)
         /\ val[c].checkedAt <= val[c].session.expires_at) =>
            /\ val[c].result.valid /\ ~val[c].threw
            /\ val[c].provCalls = 0 /\ val[c].puts = 1
            /\ val[c].result.session.last_accessed_at = val[c].checkedAt
            /\ val[c].result.session.email = val[c].session.email
            /\ val[c].result.session.expires_at = val[c].session.expires_at
            /\ val[c].result.session.refresh_token = val[c].session.refresh_token
            /\ val[c].after = val[c].result.session
            /\ val[c].ttl = val[c].putAt + SESSION_DURATION_SECONDS

\* a session was validated before its expiry and its entry now outlives it
C23_Witness ==
    \E c \in Calls :
        /\ Returned(c) /\ Tested(c)
        /\ val[c].checkedAt < val[c].session.expires_at
        /\ val[c].result.valid
        /\ kv[val[c].token] = val[c].result.session
        /\ kvTtl[val[c].token] > val[c].session.expires_at

\* ---------------------------------------------------- /authorize properties

\* the request presented a session token that was refused
Refused(q) == areq[q].pc = "done" /\ areq[q].hasToken /\ ~areq[q].result.valid

\* C24: the responses to requests whose session token was refused are the
\* same whatever the reason of the refusal, and the same as the response to a
\* request without a session token.
C24_RefusalsAlike ==
    \A q, o \in Reqs :
        /\ (Refused(q) /\ Refused(o)) => areq[q].response = areq[o].response
        /\ (Refused(q) /\ areq[o].pc = "done" /\ ~areq[o].hasToken) =>
               areq[q].response = areq[o].response

\* three requests were refused, one for each reason
C24_Witness ==
    \A why \in {"NO_SESSION", "EXPIRED", "REFRESH_FAILED"} :
        \E q \in Reqs :
            /\ Refused(q) /\ areq[q].result.reason = why
            /\ areq[q].response.status = 302

\* -------------------------------------------------------- cache properties

\* C25: a set that evicts an entry evicts the one whose most recent access,
\* set or successful get, is the oldest.
C25_EvictsLeastRecent ==
    (lastOp.op = "set" /\ lastOp.evicted # {}) => lastOp.evicted = {lastOp.lru}

\* C26: a set evicts exactly when the cache was at capacity and the key was
\* new, and then one entry only; afterwards the key is present with the value
\* set and an access time no older than any other entry's, and the size is
\* the old size, plus one for a new key, minus one for an eviction.
C26_SetEvictsOnlyWhenFullAndNew ==
    lastOp.op = "set" =>
        /\ lastOp.evicted # {} <=>
               (lastOp.size >= MAX_CACHED_SERVERS /\ ~lastOp.had)
        /\ Cardinality(lastOp.evicted) <= 1
        /\ Has(cache, lastOp.key)
        /\ cache[IndexOf(cache, lastOp.key)].value = lastOp.value
        /\ \A i \in 1..Len(cache) :
              cache[i].lastAccessed <= cache[IndexOf(cache, lastOp.key)].lastAccessed
        /\ Len(cache) = lastOp.size + (IF lastOp.had THEN 0 ELSE 1)
                            - Cardinality(lastOp.evicted)

\* a set on a key held by a full cache replaced its value and evicted nothing
C26_Witness ==
    /\ lastOp.op = "set" /\ lastOp.had
    /\ lastOp.size = MAX_CACHED_SERVERS
    /\ lastOp.evicted = {}
    /\ Len(cache) = MAX_CACHED_SERVERS

\* C27: the cache never holds more entries than its maximum size, and never
\* two entries for one key.
C27_SizeBounded ==
    /\ Len(cache) <= MAX_CACHED_SERVERS
    /\ Cardinality(KeysOf(cache)) = Len(cache)

\* a set of a new key into a full cache left it at its maximum size
C27_Witness ==
    /\ lastOp.op = "set" /\ ~lastOp.had
    /\ lastOp.size = MAX_CACHED_SERVERS
    /\ Len(cache) = MAX_CACHED_SERVERS
    /\ lastOp.key \in KeysOf(cache)

\* C28: every API-key request is served by a server configured as a newly
\* created one would be, hit or miss, and its response is the response a
\* newly created server gives: the cache changes no observable result.
C28_CacheIsTransparent ==
    api.user # 0 =>
        /\ ServerConfig(api.server)
               = ServerConfig(NewServer(api.user, api.email, 0))
        /\ api.response = Respond(NewServer(api.user, api.email, 0), api.req)

\* a request served from the cache, for a user whose email has changed since
\* the server was created, after the cache was full
C28_Witness ==
    /\ api.hit
    /\ api.req.method = "tools/list"
    /\ Len(cache) = MAX_CACHED_SERVERS
    /\ api.email = "e2"

\* C30: over the API-key path tools/list names the tools of the OAuth path
\* and tools/call of start_quiz is carried out as it is over the OAuth path.
C30_AuthPathsAtParity ==
    /\ api.req.method = "tools/list" => api.response = OAuthToolsList
    /\ (api.req.method = "tools/call" /\ api.req.tool \in OAuthTools) =>
           api.response.error = NoRpcError

\* C29: a request goes to API-key authentication exactly when its path is
\* /sse or /mcp and its Authorization header, with a leading "Bearer " taken
\* off, starts with wtyk_; a request to an OAuth endpoint never does.
C29_RoutedIffKeyOnMcpPath ==
    LET h == route.authHeader
        withoutPrefix == IF h # <<>> /\ Head(h) = "Bearer " THEN Tail(h) ELSE h
    IN  route.pc = "done" =>
            /\ route.handler = "handleApiKeyRequest" <=>
                   /\ route.pathname \in {"/sse", "/mcp"}
                   /\ h # NullHeader
                   /\ StartsWithWtyk(withoutPrefix)
            /\ route.pathname \in {"/authorize", "/callback", "/token", "/register"}
                   => route.handler = "oauthProvider.fetch"

\* C38: a step that is a has, or a get of a key the cache does not hold,
\* leaves the entries, their access times and their order as they were.
C38_ProbesChangeNothing ==
    [][(lastOp'.op = "has" \/ (lastOp'.op = "get" /\ ~lastOp'.had))
           => (cache' = cache /\ recency' = recency)]_vars

\* a has of the oldest entry of a full cache, when the clock has moved on
\* since that entry was last accessed
C38_Witness ==
    /\ lastOp.op = "has" /\ lastOp.had
    /\ Len(cache) = MAX_CACHED_SERVERS
    /\ lastOp.key = lastOp.lru
    /\ cache[IndexOf(cache, lastOp.key)].lastAccessed < now

\* C37: completeAuthorization is awaited or has answered only for a request
\* whose session token was accepted and whose user exists and is not deleted;
\* every other finished request was answered without it, and not with the
\* success page.
C37_AuthorizedOnlyIfValidAndActive ==
    \A q \in Reqs :
        /\ (areq[q].pc = "complete" \/ areq[q].completed) =>
               /\ areq[q].hasToken
               /\ areq[q].result.valid
               /\ areq[q].dbUser = "active"
        /\ (areq[q].pc = "done" /\ ~areq[q].completed) =>
               areq[q].response.status # 200

\* one request was authorized, one was stopped for a deleted user and one
\* for a refused session
C37_Witness ==
    /\ \E q \in Reqs : areq[q].completed /\ areq[q].response.status = 200
    /\ \E q \in Reqs : areq[q].pc = "done" /\ areq[q].dbUser = "deleted"
    /\ \E q \in Reqs : Refused(q)

\* ------------------------------------------- executor properties, continued

\* invocations of identity u that returned a success result
Successes(u) ==
    {r \in Invs : userOf[r] = u /\ Done(r) /\ result[r].kind = "success"}

\* C34: for each identity the success results returned, times the tool cost,
\* never exceed the balance the identity started with, however the requests
\* interleave and however many of them passed the balance check.
C34_SuccessesWithinBalance ==
    \A u \in Users : Cardinality(Successes(u)) * ToolCost <= initBalance[u]

\* two requests passed the balance check against the same balance, which
\* covers one of them: one returned a success and the other an error
C34_Witness ==
    \E r, q \in Invs :
        /\ r # q /\ userOf[r] = userOf[q]
        /\ bc[r].sufficient /\ bc[q].sufficient
        /\ bc[r].currentBalance = ToolCost /\ bc[q].currentBalance = ToolCost
        /\ initBalance[userOf[r]] = ToolCost
        /\ r \in Successes(userOf[r])
        /\ Done(q) /\ result[q].isError

\* C35: an invocation that ended before a debit call was issued, its
\* operation or the processing of its output having thrown or its balance
\* check having turned it away, made no debit call: no debit unit exists,
\* ran or was recorded under its actionId, and the balance is the starting
\* balance less the debits of the other invocations.
C35_NoDebitBeforeDebitCall ==
    \A r \in Invs :
        /\ thrown[r] \in {"ExecuteError", "ProcessError"} => Done(r)
        /\ (Done(r) /\ (thrown[r] \in {"ExecuteError", "ProcessError"}
                           \/ bc[r].userDeleted \/ ~bc[r].sufficient)) =>
               /\ attempts[r] = 0
               /\ debitIds[r] = {}
               /\ calls[actionId[r]] = 0
               /\ applied[actionId[r]] = 0
               /\ RecordsOf(actionId[r]) = {}
               /\ inflight[userOf[r]][actionId[r]] = 0
               /\ r \notin DebitedInvs

\* an operation threw for an identity that could pay, and the balance is
\* what the identity started with
C35_Witness ==
    \E r \in Invs :
        /\ Done(r)
        /\ thrown[r] = "ExecuteError"
        /\ bc[r].sufficient
        /\ balance[userOf[r]] = initBalance[userOf[r]]
        /\ initBalance[userOf[r]] >= ToolCost

WidgetTransitions ==
    { <<"IDLE", "start", "PLAYING">>, <<"PLAYING", "timer", "FINISHED">>,
      <<"FINISHED", "restart", "IDLE">> }

\* C31: the widget starts in IDLE, is always in IDLE, PLAYING or FINISHED,
\* changes state only by Start Quiz from IDLE to PLAYING, by the timeout that
\* follows the answer to the last question from PLAYING to FINISHED and by
\* Try Again from FINISHED to IDLE, and is in FINISHED only when all 8
\* questions have been answered.
C31_StateMachine ==
    /\ w.state = "IDLE"
    /\ [](/\ w.state \in {"IDLE", "PLAYING", "FINISHED"}
          /\ w.state = "FINISHED" =>
                /\ w.answered = 8
                /\ Answered(w.quizData.userAnswers) = 1..8
                /\ ~w.showFeedback /\ w.timers = <<>>)
    /\ [][w'.state # w.state =>
             <<w.state, w'.lastEvent, w'.state>> \in WidgetTransitions]_vars

\* the timeout after the eighth answer has put the widget in FINISHED, three
\* of the answers being correct
C31_Witness ==
    /\ w.state = "FINISHED"
    /\ w.lastEvent = "timer"
    /\ w.answered = 8
    /\ Cardinality(CorrectAnswers(w.quizData.userAnswers)) = 3

C33_OrderRandomized ==
    ([]<>(w.lastEvent = "restart")) =>
        <>(\E o1, o2 \in w.orders \cup {w.shown} :
              Len(o1) = Len(o2) /\ o1 # o2)

\* C39: the score is the number of recorded answers that are correct, the
\* recorded answers are as many as the clicks that were taken, one for each
\* question up to the current one, and 0 <= score <= answered <= 8; a click
\* that arrives while feedback is shown is not taken.
C39_ScoredOnce ==
    /\ w.quizData.score = Cardinality(CorrectAnswers(w.quizData.userAnswers))
    /\ w.answered = Cardinality(Answered(w.quizData.userAnswers))
    /\ Answered(w.quizData.userAnswers) = 1..w.answered
    /\ 0 <= w.quizData.score
    /\ w.quizData.score <= w.answered
    /\ w.answered <= 8
    /\ Len(w.timers) <= 1
    /\ w.lastEvent = "ignored" => w.showFeedback

\* a click on the third question was ignored while its feedback was shown
C39_Witness ==
    /\ w.lastEvent = "ignored"
    /\ w.showFeedback
    /\ w.answered = 3
    /\ w.quizData.score = 2

\* C40: while the quiz is played the index of the current question is the
\* number of questions answered and shown through, within 0..7; the widget
\* is in FINISHED with exactly 8 answers; in IDLE the index, the score and
\* the recorded answers are the initial ones; and a user who keeps answering
\* gets from PLAYING to FINISHED.
C40_ReachesFinished ==
    /\ [](/\ w.quizData.currentQuestionIndex \in 0..7
          /\ w.state = "PLAYING" =>
                w.quizData.currentQuestionIndex =
                    (IF w.showFeedback THEN w.answered - 1 ELSE w.answered)
          /\ w.state = "FINISHED" =>
                (w.quizData.currentQuestionIndex = 7 /\ w.answered = 8)
          /\ w.state = "IDLE" => w.quizData = InitialQuizData)
    /\ (w.state = "PLAYING") ~> (w.state = "FINISHED")

\* Try Again after a run with a score has put the widget back to its start
C40_Witness ==
    /\ w.state = "IDLE"
    /\ w.lastEvent = "restart"
    /\ w.quizData = InitialQuizData
    /\ \E o \in w.orders : Len(o) = 8

====
